---------------------------- MODULE Spec2Model ----------------------------
(***************************************************************************)
(* Model of terraform-pr-generator (src/main.go).                          *)
(*                                                                         *)
(* Two stages are modelled:                                                *)
(*   - the orchestration of the two execution groups (commercial and      *)
(*     govcloud) by runPlanGenerator / runPlanAll / runTargetedPlans /     *)
(*     runTargetedPlanGroup / runCommand, as three interleaved processes   *)
(*     (main and one goroutine per group);                                 *)
(*   - the line scanner and renderer processPlansFile, both as a pure      *)
(*     function (used by generatePRMarkdown) and as a step machine that    *)
(*     reads one line per step.                                            *)
(*                                                                         *)
(* Text is modelled as TLA+ strings, byte for byte: Contains, Split, Join, *)
(* the four regular expressions and the byte order of sort.Strings are     *)
(* computed on the characters of the strings.                              *)
(*                                                                         *)
(* Input/output faults are modelled where the code looks at the error      *)
(* (os.Stat, os.MkdirAll, os.Create, os.ReadFile, the os.WriteFile of      *)
(* runCommand); writes whose error the code discards are taken to succeed. *)
(***************************************************************************)
EXTENDS Integers, Sequences, FiniteSets, TLC

(***************************************************************************)
(* Strings                                                                 *)
(***************************************************************************)

\* s[i], as a one-character string ("" outside the string)
CharAt(s, i) == IF i >= 1 /\ i <= Len(s) THEN SubSeq(s, i, i) ELSE ""

\* s[i .. i+Len(lit)-1] = lit
MatchAt(s, i, lit) ==
    /\ i >= 1
    /\ i + Len(lit) - 1 <= Len(s)
    /\ SubSeq(s, i, i + Len(lit) - 1) = lit

\* strings.Contains
Contains(s, substr) == \E i \in 1..(Len(s) - Len(substr) + 1) : MatchAt(s, i, substr)

\* the positions at which substr occurs in s
Occurrences(s, substr) == {i \in 1..(Len(s) - Len(substr) + 1) : MatchAt(s, i, substr)}

MinOf(S) == CHOOSE x \in S : \A y \in S : x <= y

RECURSIVE Split(_, _)
\* strings.Split(s, sep), sep non-empty
Split(s, sep) ==
    LET at == Occurrences(s, sep)
    IN  IF at = {} THEN <<s>>
        ELSE LET i == MinOf(at)
             IN  <<SubSeq(s, 1, i - 1)>> \o Split(SubSeq(s, i + Len(sep), Len(s)), sep)

RECURSIVE Join(_, _)
\* strings.Join(elems, sep)
Join(elems, sep) ==
    IF Len(elems) = 0 THEN ""
    ELSE IF Len(elems) = 1 THEN elems[1]
    ELSE elems[1] \o sep \o Join(Tail(elems), sep)

\* the printable ASCII characters in byte order: 0x20 (space) to 0x5F, and
\* 0x61 to 0x7E (0x60 is left out: it cannot be written in a string here)
AsciiLow == " !\"#$%&'()*+,-./0123456789:;<=>?@ABCDEFGHIJKLMNOPQRSTUVWXYZ[\\]^_"

AsciiHigh == "abcdefghijklmnopqrstuvwxyz{|}~"

\* the byte value of a one-character string (newline is 0x0A)
Ord(c) ==
    IF c = "\n" THEN 10
    ELSE IF \E i \in 1..Len(AsciiLow) : SubSeq(AsciiLow, i, i) = c
         THEN 31 + (CHOOSE i \in 1..Len(AsciiLow) : SubSeq(AsciiLow, i, i) = c)
         ELSE 96 + (CHOOSE i \in 1..Len(AsciiHigh) : SubSeq(AsciiHigh, i, i) = c)

RECURSIVE StrLess(_, _)
\* a < b on Go strings: byte-wise lexicographic order
StrLess(a, b) ==
    IF Len(b) = 0 THEN FALSE
    ELSE IF Len(a) = 0 THEN TRUE
    ELSE IF CharAt(a, 1) = CharAt(b, 1)
         THEN StrLess(SubSeq(a, 2, Len(a)), SubSeq(b, 2, Len(b)))
         ELSE Ord(CharAt(a, 1)) < Ord(CharAt(b, 1))

Lower == {"a", "b", "c", "d", "e", "f", "g", "h", "i", "j", "k", "l", "m",
          "n", "o", "p", "q", "r", "s", "t", "u", "v", "w", "x", "y", "z"}

Digit == {"0", "1", "2", "3", "4", "5", "6", "7", "8", "9"}

\* the last position of the longest run of characters of class, starting at
\* position i (i - 1 when the run is empty)
RunEnd(s, i, class) ==
    LET stops == {p \in i..(Len(s) + 1) : CharAt(s, p) \notin class}
    IN  MinOf(stops) - 1

\* the last position of the longest run of characters other than "/"
\* starting at position i (i - 1 when the run is empty)
NonSlashEnd(s, i) ==
    LET stops == {p \in i..(Len(s) + 1) : p = Len(s) + 1 \/ CharAt(s, p) = "/"}
    IN  MinOf(stops) - 1

\* insertion of x into an ascending sequence
RECURSIVE InsertSorted(_, _)
InsertSorted(sorted, x) ==
    IF Len(sorted) = 0 THEN <<x>>
    ELSE IF StrLess(x, Head(sorted)) THEN <<x>> \o sorted
    ELSE <<Head(sorted)>> \o InsertSorted(Tail(sorted), x)

\* a slice left in the order of its appends
SortStringsKeepOrder(xs) == xs

RECURSIVE SortStrings(_)
\* sort.Strings on a slice
SortStrings(xs) ==
    IF Len(xs) = 0 THEN <<>>
    ELSE InsertSorted(SortStrings(Tail(xs)), Head(xs))

RECURSIVE SetToSortedSeq(_)
\* the keys of a map collected in any order and then sorted by sort.Strings
SetToSortedSeq(S) ==
    IF S = {} THEN <<>>
    ELSE LET x == CHOOSE y \in S : TRUE
         IN  InsertSorted(SetToSortedSeq(S \ {x}), x)

(***************************************************************************)
(* processPlansFile: the patterns                                          *)
(***************************************************************************)

\* the result of Regexp.FindStringSubmatch: <<>> when nothing matches,
\* otherwise <<the leftmost match, its first group>>

\* regexp `/organizations/([^/]+)/`
FindEnvCommercial(line) ==
    LET lit == "/organizations/"
        first(i) == i + Len(lit)
        ok(i) == /\ MatchAt(line, i, lit)
                 /\ NonSlashEnd(line, first(i)) >= first(i)
                 /\ CharAt(line, NonSlashEnd(line, first(i)) + 1) = "/"
        starts == {i \in 1..Len(line) : ok(i)}
    IN  IF starts = {} THEN <<>>
        ELSE LET i == MinOf(starts)
                 e == NonSlashEnd(line, first(i))
             IN  <<SubSeq(line, i, e + 1), SubSeq(line, first(i), e)>>

\* regexp `(govcloud-[^/]+)`
FindEnvGovcloud(line) ==
    LET lit == "govcloud-"
        first(i) == i + Len(lit)
        ok(i) == /\ MatchAt(line, i, lit)
                 /\ NonSlashEnd(line, first(i)) >= first(i)
        starts == {i \in 1..Len(line) : ok(i)}
    IN  IF starts = {} THEN <<>>
        ELSE LET i == MinOf(starts)
                 e == NonSlashEnd(line, first(i))
             IN  <<SubSeq(line, i, e), SubSeq(line, i, e)>>

\* the last position of a match of `[a-z]+-[0-9]` that starts at position i,
\* 0 when there is none
ZoneEnd(line, i) ==
    LET e == RunEnd(line, i, Lower)
    IN  IF e >= i /\ CharAt(line, e + 1) = "-" /\ CharAt(line, e + 2) \in Digit
        THEN e + 2 ELSE 0

\* regexp `/([a-z]{2}-[a-z]+-[0-9])/`
FindRegionCommercial(line) ==
    LET ok(i) == /\ CharAt(line, i) = "/"
                 /\ CharAt(line, i + 1) \in Lower
                 /\ CharAt(line, i + 2) \in Lower
                 /\ CharAt(line, i + 3) = "-"
                 /\ ZoneEnd(line, i + 4) > 0
                 /\ CharAt(line, ZoneEnd(line, i + 4) + 1) = "/"
        starts == {i \in 1..Len(line) : ok(i)}
    IN  IF starts = {} THEN <<>>
        ELSE LET i == MinOf(starts)
                 e == ZoneEnd(line, i + 4)
             IN  <<SubSeq(line, i, e + 1), SubSeq(line, i + 1, e)>>

\* regexp `(us-gov-[a-z]+-[0-9])`
FindRegionGovcloud(line) ==
    LET lit == "us-gov-"
        ok(i) == MatchAt(line, i, lit) /\ ZoneEnd(line, i + Len(lit)) > 0
        starts == {i \in 1..Len(line) : ok(i)}
    IN  IF starts = {} THEN <<>>
        ELSE LET i == MinOf(starts)
                 e == ZoneEnd(line, i + Len(lit))
             IN  <<SubSeq(line, i, e), SubSeq(line, i, e)>>

\* envRegex.FindStringSubmatch(line), envRegex chosen by isGovcloud
EnvMatches(isGovcloud, line) ==
    IF isGovcloud THEN FindEnvGovcloud(line) ELSE FindEnvCommercial(line)

\* regionRegex.FindStringSubmatch(line), regionRegex chosen by isGovcloud
RegionMatches(isGovcloud, line) ==
    IF isGovcloud THEN FindRegionGovcloud(line) ELSE FindRegionCommercial(line)

HeaderPhrase == "Terraform will perform the following actions:"

\* a header test that leaves a line with the footer phrases to the footer test
IsHeaderUnlessFooter(line) ==
    /\ Contains(line, HeaderPhrase)
    /\ ~(/\ Contains(line, "Plan:")
         /\ \/ Contains(line, "to add")
            \/ Contains(line, "to change")
            \/ Contains(line, "to destroy"))

\* the line opens a plan section
IsHeader(line) == Contains(line, HeaderPhrase)

\* the line closes a plan section
IsFooter(line) ==
    /\ Contains(line, "Plan:")
    /\ \/ Contains(line, "to add")
       \/ Contains(line, "to change")
       \/ Contains(line, "to destroy")

NoCommercialPlans == "No commercial plans needed"

NoGovcloudPlans == "No GovCloud plans needed"

\* the content is one of the placeholders written for a group with no plans
IsPlaceholder(contentStr) ==
    Contains(contentStr, NoCommercialPlans) \/ Contains(contentStr, NoGovcloudPlans)

(***************************************************************************)
(* processPlansFile: the scanning loop                                     *)
(***************************************************************************)

\* the name of the module being planned (pg.ModuleName)
ModuleName == "mod"

\* the value of a Go variable of type error: <<>> is nil, <<msg>> is an error
\* whose message is msg
Nil == <<>>

Errorf(msg) == <<msg>>

ErrMsg(err) == IF err = Nil THEN "<nil>" ELSE err[1]

\* the locals of processPlansFile before the first line: no environment,
\* region or plan line, outside a plan section, an empty map.  emitted is
\* the trace of the stores into Plans (one entry per execution of line 413).
ScanInit ==
    [currentEnv    |-> "",
     currentRegion |-> "",
     planLines     |-> <<>>,
     inPlanSection |-> FALSE,
     environments  |-> <<>>,
     emitted       |-> <<>>]

\* an environment that lasts for the line that names it only
NextEnvOfLineOnly(isGovcloud, currentEnv, line) ==
    LET envMatches == EnvMatches(isGovcloud, line)
    IN  IF Len(envMatches) > 1 THEN envMatches[2] ELSE ""

\* currentEnv after the environment pattern was tried on the line
NextEnv(isGovcloud, currentEnv, line) ==
    LET envMatches == EnvMatches(isGovcloud, line)
    IN  IF Len(envMatches) > 1 THEN envMatches[2] ELSE currentEnv

\* a region pattern that is tried when the environment pattern did not match
NextRegionUnlessEnv(isGovcloud, currentRegion, line) ==
    LET regionMatches == RegionMatches(isGovcloud, line)
    IN  IF Len(regionMatches) > 1 /\ EnvMatches(isGovcloud, line) = <<>>
        THEN regionMatches[2] ELSE currentRegion

\* currentRegion after the region pattern was tried on the line
NextRegion(isGovcloud, currentRegion, line) ==
    LET regionMatches == RegionMatches(isGovcloud, line)
    IN  IF Len(regionMatches) > 1 THEN regionMatches[2] ELSE currentRegion

\* a header that is added to the lines collected so far
ContinuePlanLines(planLines, line) == Append(planLines, line)

\* a section that starts with no line
StartPlanLinesEmpty(planLines, line) == <<>>

\* line 390: planLines after a header line
StartPlanLines(planLines, line) == <<line>>

\* a condition that looks at the environment only
HasContextEnvOnly(currentEnv, currentRegion) == currentEnv # ""

\* line 400: the condition under which a closed plan section is stored
HasContext(currentEnv, currentRegion) == currentEnv # "" /\ currentRegion # ""

\* contains(slice, item)
SliceContains(slice, item) == \E i \in 1..Len(slice) : slice[i] = item

\* a store that keeps the plan a region already has
StorePlanKeepFirst(environments, env, region, content) ==
    LET old == IF env \in DOMAIN environments
               THEN environments[env]
               ELSE [Name |-> env, Regions |-> <<>>, Plans |-> <<>>]
        regions == IF SliceContains(old.Regions, region)
                   THEN old.Regions
                   ELSE Append(old.Regions, region)
        plans == [r \in (DOMAIN old.Plans) \cup {region} |->
                      IF r \in DOMAIN old.Plans THEN old.Plans[r] ELSE content]
        new == [Name |-> old.Name, Regions |-> regions, Plans |-> plans]
    IN  [e \in (DOMAIN environments) \cup {env} |->
             IF e = env THEN new ELSE environments[e]]

\* environments after the plan of (env, region) was stored: the Environment
\* is created when missing, the region is appended to Regions unless it is
\* there, and Plans[region] is assigned
StorePlan(environments, env, region, content) ==
    LET old == IF env \in DOMAIN environments
               THEN environments[env]
               ELSE [Name |-> env, Regions |-> <<>>, Plans |-> <<>>]
        regions == IF SliceContains(old.Regions, region)
                   THEN old.Regions
                   ELSE Append(old.Regions, region)
        plans == [r \in (DOMAIN old.Plans) \cup {region} |->
                      IF r = region THEN content ELSE old.Plans[r]]
        new == [Name |-> old.Name, Regions |-> regions, Plans |-> plans]
    IN  [e \in (DOMAIN environments) \cup {env} |->
             IF e = env THEN new ELSE environments[e]]

\* one iteration of the loop over the lines: the locals after the line
ScanLine(isGovcloud, st, line) ==
    LET env == NextEnv(isGovcloud, st.currentEnv, line)
        region == NextRegion(isGovcloud, st.currentRegion, line)
        ctx == [st EXCEPT !.currentEnv = env, !.currentRegion = region]
    IN  IF IsHeader(line)
        THEN [ctx EXCEPT !.inPlanSection = TRUE,
                         !.planLines = StartPlanLines(st.planLines, line)]
        ELSE IF ~st.inPlanSection THEN ctx
        ELSE LET collected == Append(st.planLines, line)
             IN  IF ~IsFooter(line) THEN [ctx EXCEPT !.planLines = collected]
                 ELSE IF ~HasContext(env, region)
                 THEN [ctx EXCEPT !.planLines = <<>>, !.inPlanSection = FALSE]
                 ELSE [ctx EXCEPT
                         !.planLines = <<>>,
                         !.inPlanSection = FALSE,
                         !.environments =
                             StorePlan(st.environments, env, region,
                                       Join(collected, "\n")),
                         !.emitted =
                             Append(st.emitted,
                                    [environment |-> env, region |-> region,
                                     blockText |-> Join(collected, "\n")])]

RECURSIVE ScanLines(_, _, _)
\* the locals after the loop over lines, started with the locals st
ScanLines(isGovcloud, st, lines) ==
    IF Len(lines) = 0 THEN st
    ELSE ScanLines(isGovcloud, ScanLine(isGovcloud, st, Head(lines)), Tail(lines))

(***************************************************************************)
(* processPlansFile: the output                                            *)
(***************************************************************************)

\* the heading of an environment
EnvHeading(name) ==
    "## [environment: " \o name \o "] - [command: kitman tg plan_all] - [module: "
        \o ModuleName \o "]\n\n"

\* the fence of a code block: three backquotes in the code.  The backquote
\* (0x60) cannot be written in a string here; an apostrophe stands for it.
Fence == "'''"

\* the collapsible block of a region
RegionBlock(region, planContent) ==
    "<details>\n<summary>" \o region \o "</summary>\n\n" \o Fence \o "bash\n"
        \o planContent \o "\n" \o Fence \o "\n\n</details>\n\n"

RECURSIVE RegionBlocks(_, _)
\* the blocks of the regions of one environment, in the order of regions
RegionBlocks(env, regions) ==
    IF Len(regions) = 0 THEN ""
    ELSE LET region == Head(regions)
             block == IF region \in DOMAIN env.Plans /\ env.Plans[region] # ""
                      THEN RegionBlock(region, env.Plans[region])
                      ELSE ""
         IN  block \o RegionBlocks(env, Tail(regions))

RECURSIVE EnvSections(_, _)
\* the sections of the environments named by envNames, in that order
EnvSections(environments, envNames) ==
    IF Len(envNames) = 0 THEN ""
    ELSE LET env == environments[Head(envNames)]
         IN  EnvHeading(env.Name)
                 \o RegionBlocks(env, SortStrings(env.Regions))
                 \o EnvSections(environments, Tail(envNames))

\* what processPlansFile writes for the map environments
Render(environments) ==
    EnvSections(environments, SetToSortedSeq(DOMAIN environments))

\* line 432: sort.Strings(env.Regions) sorts the slice of each environment
\* in place, so the map holds the sorted regions when the call returns
SortRegions(environments) ==
    [e \in DOMAIN environments |->
        [environments[e] EXCEPT !.Regions = SortStrings(@)]]

\* a file of the output directory: missing, or present with its bytes
NoFile == [exists |-> FALSE, data |-> ""]

FileOf(data) == [exists |-> TRUE, data |-> data]

\* the file is read and is not skipped (lines 351-359)
IsScanned(file) == file.exists /\ Len(file.data) # 0 /\ ~IsPlaceholder(file.data)

\* what processPlansFile appends to the report for a file of plans
ProcessPlansFile(file, isGovcloud) ==
    IF ~IsScanned(file) THEN ""
    ELSE Render(ScanLines(isGovcloud, ScanInit, Split(file.data, "\n")).environments)

(***************************************************************************)
(* State                                                                   *)
(***************************************************************************)

VARIABLES
    \* runPlanGenerator, runPlanAll, runTargetedPlans (the main goroutine)
    pc,             \* the position of the main goroutine
    flagTargeted,   \* the flag --targeted of the command line
    targeted,       \* the local targeted: the flag, cleared by the fallback
    discoverErr,    \* the error returned by findAffectedPlans
    affectedPlans,  \* the result of findAffectedPlans
    plans,          \* commercialPlans and govcloudPlans, by group
    wg,             \* the counter of the sync.WaitGroup
    groupErr,       \* commercialErr and govcloudErr, by group
    retErr,         \* the error returned by runPlanAll / runTargetedPlans
    exitCode,       \* -1 while the process runs, then its exit status
    message,        \* the last message printed before the process ends
    files,          \* the files of the output directory, by name
    \* the goroutine of each group, and the executor processes it ran
    gpc,            \* the position of the goroutine of each group
    planIdx,        \* the index of the loop over plans, by group
    started,        \* the executor invocations started by each group, in order
    results,        \* what cmd.Output() returned for them, in order, by group
    \* one call of processPlansFile, one line per step
    scanPc,         \* the position within processPlansFile
    scanFile,       \* the file it reads
    isGovcloud,     \* its parameter isGovcloud
    lines,          \* strings.Split(contentStr, "\n")
    lineIdx,        \* the index of the loop over lines
    scan,           \* currentEnv, currentRegion, planLines, inPlanSection, environments
    scanOut,        \* what the call has written to its output
    scanErr         \* the error the call returned

mainVars == <<pc, flagTargeted, targeted, discoverErr, affectedPlans, plans, wg,
             groupErr, retErr, exitCode, message, files>>

groupVars == <<gpc, planIdx, started, results>>

scanVars == <<scanPc, scanFile, isGovcloud, lines, lineIdx, scan, scanOut, scanErr>>

vars == <<mainVars, groupVars, scanVars>>

Groups == {"commercial", "govcloud"}

\* the artifact of each group, and the report
PlansFile(g) == IF g = "commercial" THEN "commercial-plans.txt" ELSE "govcloud-plans.txt"

ReportFile == "pr-ready.md"

FileNames == {PlansFile("commercial"), PlansFile("govcloud"), ReportFile}

(***************************************************************************)
(* processPlansFile as a step machine                                      *)
(***************************************************************************)

\* the longest file scanned, in lines
MaxLines == 4

\* the lines a scanned file is made of: a line with both markers, a line with
\* the environment marker only, a header, a footer, a line that holds the
\* header phrase, the footer phrases and both markers, a line of a plan that
\* holds a region marker, a footer that holds both markers, and a placeholder
ScanAlphabet(gov) ==
    {IF gov THEN "govcloud-staging/us-gov-west-1/"
            ELSE "/organizations/staging/eu-west-1/",
     IF gov THEN "govcloud-prod" ELSE "/organizations/prod/",
     HeaderPhrase,
     "Plan: 1 to add, 0 to change, 0 to destroy.",
     HeaderPhrase \o " Plan: 0 to change "
         \o (IF gov THEN "govcloud-prod/us-gov-east-2/" ELSE "/organizations/prod/us-west-2/"),
     IF gov THEN "  + region = us-gov-east-1" ELSE "  + path = /ap-south-1/x",
     IF gov THEN "Plan: 2 to destroy govcloud-prod/us-gov-east-1/"
            ELSE "Plan: 2 to destroy /organizations/prod/us-east-1/",
     IF gov THEN NoGovcloudPlans ELSE NoCommercialPlans}

\* the files a scan may be given: a missing file, an empty file, and every
\* file of 1 to MaxLines lines of the alphabet
ScanFiles(gov) ==
    {NoFile, FileOf("")} \cup
    {FileOf(Join(ls, "\n")) :
        ls \in UNION {[1..n -> ScanAlphabet(gov)] : n \in 1..MaxLines}}

\* the main goroutine and the groups, before anything ran
MainIdle ==
    /\ pc = "idle"
    /\ flagTargeted = FALSE
    /\ targeted = FALSE
    /\ discoverErr = Nil
    /\ affectedPlans = <<>>
    /\ plans = [g \in Groups |-> <<>>]
    /\ wg = 0
    /\ groupErr = [g \in Groups |-> Nil]
    /\ retErr = Nil
    /\ exitCode = -1
    /\ message = ""
    /\ files = [f \in FileNames |-> NoFile]
    /\ gpc = [g \in Groups |-> "none"]
    /\ planIdx = [g \in Groups |-> 0]
    /\ started = [g \in Groups |-> <<>>]
    /\ results = [g \in Groups |-> <<>>]

\* the scanner, before a call
ScanIdle ==
    /\ scanPc = "idle"
    /\ scanFile = NoFile
    /\ isGovcloud = FALSE
    /\ lines = <<>>
    /\ lineIdx = 0
    /\ scan = ScanInit
    /\ scanOut = ""
    /\ scanErr = Nil

\* a call processPlansFile(filename, output, isGovcloud) on one of the files
InitScan ==
    /\ MainIdle
    /\ isGovcloud \in BOOLEAN
    /\ scanFile \in ScanFiles(isGovcloud)
    /\ scanPc = "read"
    /\ lines = <<>>
    /\ lineIdx = 0
    /\ scan = ScanInit
    /\ scanOut = ""
    /\ scanErr = Nil

\* a call that reports the file it could not read
SkipReturnReadError(file) ==
    IF file.exists THEN Nil ELSE Errorf("open: no such file or directory")

\* lines 353 and 358: what the call returns for a file it does not scan
SkipReturn(file) == Nil

\* lines 350-376: the file is read; a missing, empty or placeholder file ends
\* the call, any other is split into lines
ScanOpen ==
    /\ scanPc = "read"
    /\ IF IsScanned(scanFile)
       THEN /\ lines' = Split(scanFile.data, "\n")
            /\ lineIdx' = 1
            /\ scanPc' = "loop"
            /\ UNCHANGED scanErr
       ELSE /\ scanPc' = "done"
            /\ scanErr' = SkipReturn(scanFile)
            /\ UNCHANGED <<lines, lineIdx>>
    /\ scan' = ScanInit
    /\ UNCHANGED <<scanFile, isGovcloud, scanOut, mainVars, groupVars>>

\* lines 378-419: one iteration of the loop over the lines
ScanNextLine ==
    /\ scanPc = "loop"
    /\ lineIdx <= Len(lines)
    /\ scan' = ScanLine(isGovcloud, scan, lines[lineIdx])
    /\ lineIdx' = lineIdx + 1
    /\ UNCHANGED <<scanPc, scanFile, isGovcloud, lines, scanOut, scanErr, mainVars,
                   groupVars>>

\* lines 421-442: after the last line the environments are sorted and
\* written, and the call returns nil
ScanWrite ==
    /\ scanPc = "loop"
    /\ lineIdx > Len(lines)
    /\ scanOut' = scanOut \o Render(scan.environments)
    /\ scan' = [scan EXCEPT !.environments = SortRegions(@)]
    /\ scanErr' = Nil
    /\ scanPc' = "done"
    /\ UNCHANGED <<scanFile, isGovcloud, lines, lineIdx, mainVars, groupVars>>

NextScan == ScanOpen \/ ScanNextLine \/ ScanWrite

SpecScan == InitScan /\ [][NextScan]_vars

(***************************************************************************)
(* The collaborators: discovery and the plan executor                      *)
(***************************************************************************)

\* the longest list of affected plans
MaxTargets == 3

\* the plan directories findAffectedPlans may report
Targets ==
    {"aws/organizations/staging/eu-west-1/mod",
     "aws/organizations/prod/us-east-1/mod",
     "aws/organizations/govcloud-staging/us-gov-west-1/mod",
     "aws/organizations/govcloud-staging/us-gov-east-1/mod"}

\* the lists findAffectedPlans may return without error
TargetLists == UNION {[1..n -> Targets] : n \in 0..MaxTargets}

\* the error of a command that exits with a non-zero status
ExitStatus == Errorf("exit status 1")

\* the results of findAffectedPlans: an error, or a list (possibly empty)
DiscoveryResults ==
    {[err |-> Errorf("affected-modules.sh not found in current directory"),
      plans |-> <<>>],
     [err |-> Errorf("failed to run affected-modules.sh: " \o ErrMsg(ExitStatus)),
      plans |-> <<>>]}
        \cup {[err |-> Nil, plans |-> l] : l \in TargetLists}

\* what the executor prints for one plan directory: the directory, then the
\* plan with or without a resource line
PlanOutput(planDir, withResource) ==
    planDir \o "\n" \o HeaderPhrase \o "\n"
        \o (IF withResource THEN "  + resource\n" ELSE "")
        \o "Plan: 1 to add, 0 to change, 0 to destroy.\n"

\* the outputs of "kitman tg plan --wd planDir --local --pr"
TargetOutputs(planDir) == {PlanOutput(planDir, b) : b \in BOOLEAN}

\* the outputs of "kitman tg plan_all" for a group
BatchOutputs(g) ==
    IF g = "commercial"
    THEN {PlanOutput("aws/organizations/staging/eu-west-1/mod", TRUE)
              \o PlanOutput("aws/organizations/prod/us-east-1/mod", TRUE),
          PlanOutput("aws/organizations/staging/eu-west-1/mod", FALSE)
              \o PlanOutput("aws/organizations/staging/eu-west-1/mod", TRUE)}
    ELSE {PlanOutput("aws/organizations/govcloud-staging/us-gov-west-1/mod", TRUE),
          PlanOutput("aws/organizations/govcloud-staging/us-gov-west-1/mod", TRUE)
              \o PlanOutput("aws/organizations/govcloud-staging/us-gov-west-1/mod", FALSE)}

\* the results of cmd.Output(): an error, or the bytes printed
ExecResults(outputs) ==
    {[err |-> ExitStatus, output |-> ""]}
        \cup {[err |-> Nil, output |-> o] : o \in outputs}

\* the results of a file system call whose error the code looks at
IoResults(what) == {Nil, Errorf(what \o ": permission denied")}

(***************************************************************************)
(* runPlanGenerator, runPlanAll, runTargetedPlans: the main goroutine      *)
(***************************************************************************)

\* the output directory (pg.OutputDir)
OutputDir == "out"

\* a split that looks for "govcloud" at the start of the plan only
PlansOfByPrefix(g, affected) ==
    SelectSeq(affected, LAMBDA plan : MatchAt(plan, 1, "govcloud") <=> (g = "govcloud"))

\* the plans of a group: those that contain "govcloud" are the govcloud ones
PlansOf(g, affected) ==
    SelectSeq(affected, LAMBDA plan : Contains(plan, "govcloud") <=> (g = "govcloud"))

\* a file for a group without plans that says nothing
PlaceholderBlank(g) == "\n"

\* the placeholder written for a group without plans
Placeholder(g) ==
    IF g = "commercial" THEN NoCommercialPlans \o "\n" ELSE NoGovcloudPlans \o "\n"

\* a Wait that returns while one goroutine is still counted
WaitReturnsEarly(counter) == counter <= 1

\* wg.Wait() returns
WaitReturns(counter) == counter = 0

\* an aggregation that looks at the commercial error only
GroupsErrorCommercialOnly(commercialErr, govcloudErr) ==
    IF commercialErr # Nil
    THEN Errorf("commercial plans failed: " \o ErrMsg(commercialErr))
    ELSE Nil

\* the error returned after wg.Wait() (lines 226-233 and 282-289)
GroupsError(commercialErr, govcloudErr) ==
    IF commercialErr # Nil
    THEN Errorf("commercial plans failed: " \o ErrMsg(commercialErr))
    ELSE IF govcloudErr # Nil
    THEN Errorf("govcloud plans failed: " \o ErrMsg(govcloudErr))
    ELSE Nil

\* what generatePRMarkdown writes to pr-ready.md
ReportText(fs) ==
    "**Terraform plan**\n\n"
        \o ProcessPlansFile(fs[PlansFile("commercial")], FALSE)
        \o ProcessPlansFile(fs[PlansFile("govcloud")], TRUE)

\* the process prints msg and ends with the status code
Exit(code, msg) ==
    /\ exitCode' = code
    /\ message' = msg
    /\ pc' = "exited"

\* the process starts: the flag --targeted is set or not
Init ==
    /\ pc = "validate"
    /\ flagTargeted \in BOOLEAN
    /\ targeted = flagTargeted
    /\ discoverErr = Nil
    /\ affectedPlans = <<>>
    /\ plans = [g \in Groups |-> <<>>]
    /\ wg = 0
    /\ groupErr = [g \in Groups |-> Nil]
    /\ retErr = Nil
    /\ exitCode = -1
    /\ message = ""
    /\ files = [f \in FileNames |-> NoFile]
    /\ gpc = [g \in Groups |-> "none"]
    /\ planIdx = [g \in Groups |-> 0]
    /\ started = [g \in Groups |-> <<>>]
    /\ results = [g \in Groups |-> <<>>]
    /\ ScanIdle

\* line 158: the error of validateModule when the module directory is missing
ModuleNotFound ==
    Errorf("module terragrunt_" \o ModuleName
           \o " not found in current directory.\nMake sure you're running this from the elon-modules root directory")

\* lines 84-88: the module directory is there or not
ValidateModule ==
    /\ pc = "validate"
    /\ \E err \in {Nil, ModuleNotFound} :
          IF err # Nil
          THEN Exit(1, "Error: " \o ErrMsg(err))
          ELSE pc' = "mkdir" /\ UNCHANGED <<exitCode, message>>
    /\ UNCHANGED <<flagTargeted, targeted, discoverErr, affectedPlans,
                   plans, wg, groupErr, retErr, files,
                   groupVars, scanVars>>

\* lines 90-94: the output directory is created or not
MkdirAll ==
    /\ pc = "mkdir"
    /\ \E err \in IoResults("mkdir " \o OutputDir) :
          IF err # Nil
          THEN Exit(1, "Error creating output directory: " \o ErrMsg(err))
          ELSE pc' = (IF targeted THEN "discover" ELSE "spawnCommercial")
               /\ UNCHANGED <<exitCode, message>>
    /\ UNCHANGED <<flagTargeted, targeted, discoverErr, affectedPlans,
                   plans, wg, groupErr, retErr, files,
                   groupVars, scanVars>>

\* a fallback for a failed discovery only
FallsBackOnErrorOnly(err, affected) == err # Nil

\* line 102: the condition under which the run falls back to plan_all
FallsBack(err, affected) == err # Nil \/ Len(affected) = 0

\* lines 99-122: with --targeted the affected plans are looked for; an error
\* or an empty list clears the flag
FindAffectedPlans ==
    /\ pc = "discover"
    /\ \E r \in DiscoveryResults :
          /\ affectedPlans' = r.plans
          /\ discoverErr' = r.err
          /\ IF FallsBack(r.err, r.plans)
             THEN targeted' = FALSE /\ pc' = "spawnCommercial"
             ELSE targeted' = TRUE /\ pc' = "partition"
    /\ UNCHANGED <<flagTargeted, plans, wg, groupErr, retErr, exitCode, message, files,
                   groupVars, scanVars>>

\* lines 237-245: the affected plans are split between the groups
Partition ==
    /\ pc = "partition"
    /\ plans' = [g \in Groups |-> PlansOf(g, affectedPlans)]
    /\ pc' = "spawnCommercial"
    /\ UNCHANGED <<flagTargeted, targeted, discoverErr, affectedPlans,
                   wg, groupErr, retErr, exitCode, message,
                   files, groupVars, scanVars>>

\* a start of the goroutine of a group that leaves out wg.Add(1)
SpawnWithoutAdd(g) ==
    /\ pc = (IF g = "commercial" THEN "spawnCommercial" ELSE "spawnGovcloud")
    /\ IF targeted /\ Len(plans[g]) = 0
       THEN /\ files' = [files EXCEPT ![PlansFile(g)] = FileOf(Placeholder(g))]
            /\ UNCHANGED <<wg, gpc>>
       ELSE /\ gpc' = [gpc EXCEPT ![g] = "start"]
            /\ UNCHANGED <<wg, files>>
    /\ pc' = (IF g = "commercial" THEN "spawnGovcloud" ELSE "wait")
    /\ UNCHANGED <<flagTargeted, targeted, discoverErr, affectedPlans,
                   plans, groupErr, retErr, exitCode,
                   message, planIdx, started, results, scanVars>>

\* lines 198-222 and 250-278: the goroutine of a group is started; in
\* targeted mode a group without plans gets its placeholder file instead
Spawn(g) ==
    /\ pc = (IF g = "commercial" THEN "spawnCommercial" ELSE "spawnGovcloud")
    /\ IF targeted /\ Len(plans[g]) = 0
       THEN /\ files' = [files EXCEPT ![PlansFile(g)] = FileOf(Placeholder(g))]
            /\ UNCHANGED <<wg, gpc>>
       ELSE /\ wg' = wg + 1
            /\ gpc' = [gpc EXCEPT ![g] = "start"]
            /\ UNCHANGED files
    /\ pc' = (IF g = "commercial" THEN "spawnGovcloud" ELSE "wait")
    /\ UNCHANGED <<flagTargeted, targeted, discoverErr, affectedPlans,
                   plans, groupErr, retErr, exitCode,
                   message, planIdx, started, results, scanVars>>

\* lines 224-233 and 280-289: wg.Wait() returns and the errors are looked at
Wait ==
    /\ pc = "wait"
    /\ WaitReturns(wg)
    /\ retErr' = GroupsError(groupErr["commercial"], groupErr["govcloud"])
    /\ pc' = "returned"
    /\ UNCHANGED <<flagTargeted, targeted, discoverErr, affectedPlans,
                   plans, wg, groupErr, exitCode, message,
                   files, groupVars, scanVars>>

\* lines 133-136: an error of the groups ends the process
HandleResult ==
    /\ pc = "returned"
    /\ IF retErr # Nil
       THEN Exit(1, "Error generating plans: " \o ErrMsg(retErr))
       ELSE pc' = "report" /\ UNCHANGED <<exitCode, message>>
    /\ UNCHANGED <<flagTargeted, targeted, discoverErr, affectedPlans,
                   plans, wg, groupErr, retErr, files,
                   groupVars, scanVars>>

\* lines 138-144 and 326-347: the report is created and written
GeneratePRMarkdown ==
    /\ pc = "report"
    /\ \E err \in IoResults("open " \o OutputDir \o "/" \o ReportFile) :
          IF err # Nil
          THEN Exit(1, "Error generating PR markdown: " \o ErrMsg(err)) /\ UNCHANGED files
          ELSE /\ files' = [files EXCEPT ![ReportFile] = FileOf(ReportText(files))]
               /\ Exit(0, "Plan generation complete!")
    /\ UNCHANGED <<flagTargeted, targeted, discoverErr, affectedPlans,
                   plans, wg, groupErr, retErr,
                   groupVars, scanVars>>

(***************************************************************************)
(* runCommand and runTargetedPlanGroup: the goroutine of a group           *)
(***************************************************************************)

\* the arguments of the batch command of a group
BatchArgs(g) ==
    IF g = "commercial"
    THEN "[tg plan_all -m " \o ModuleName \o " --local --pr]"
    ELSE "[tg plan_all -m " \o ModuleName
             \o " --organizations govcloud-staging|govcloud-production"
             \o " --regions us-gov-west-1 --local --pr]"

\* goroutines that assign their error to one variable
ReturnSharedErr(g, err) ==
    /\ groupErr' = [groupErr EXCEPT !["commercial"] = err]
    /\ wg' = wg - 1
    /\ gpc' = [gpc EXCEPT ![g] = "done"]

\* a goroutine that returns and leaves out wg.Done()
ReturnWithoutDone(g, err) ==
    /\ groupErr' = [groupErr EXCEPT ![g] = err]
    /\ wg' = wg
    /\ gpc' = [gpc EXCEPT ![g] = "done"]

\* the goroutine returns: its error is assigned and wg.Done() runs
Return(g, err) ==
    /\ groupErr' = [groupErr EXCEPT ![g] = err]
    /\ wg' = wg - 1
    /\ gpc' = [gpc EXCEPT ![g] = "done"]

\* line 317-318, batch mode: the command of the group is started
RunCommandStart(g) ==
    /\ ~targeted
    /\ gpc[g] = "start"
    /\ started' = [started EXCEPT ![g] = Append(@, "plan_all")]
    /\ gpc' = [gpc EXCEPT ![g] = "exec"]
    /\ UNCHANGED <<mainVars, planIdx, results, scanVars>>

\* lines 318-323, batch mode: the command ends; its output is written to the
\* file of the group unless it failed
RunCommandReturn(g) ==
    /\ ~targeted
    /\ gpc[g] = "exec"
    /\ \E r \in ExecResults(BatchOutputs(g)) :
          /\ results' = [results EXCEPT ![g] = Append(@, r)]
          /\ IF r.err # Nil
             THEN /\ Return(g, Errorf("command failed: kitman " \o BatchArgs(g)
                                          \o " - " \o ErrMsg(r.err)))
                  /\ UNCHANGED files
             ELSE \E w \in IoResults("open " \o OutputDir \o "/" \o PlansFile(g)) :
                     /\ files' = IF w = Nil
                                 THEN [files EXCEPT ![PlansFile(g)] = FileOf(r.output)]
                                 ELSE files
                     /\ Return(g, w)
    /\ UNCHANGED <<pc, flagTargeted, targeted, discoverErr, affectedPlans,
                   plans, retErr, exitCode, message,
                   planIdx, started, scanVars>>

\* lines 293-298, targeted mode: the file of the group is created
CreateFile(g) ==
    /\ targeted
    /\ gpc[g] = "start"
    /\ \E err \in IoResults("open " \o OutputDir \o "/" \o PlansFile(g)) :
          IF err # Nil
          THEN /\ Return(g, err)
               /\ UNCHANGED <<files, planIdx>>
          ELSE /\ files' = [files EXCEPT ![PlansFile(g)] = FileOf("")]
               /\ planIdx' = [planIdx EXCEPT ![g] = 1]
               /\ gpc' = [gpc EXCEPT ![g] = "loop"]
               /\ UNCHANGED <<groupErr, wg>>
    /\ UNCHANGED <<pc, flagTargeted, targeted, discoverErr, affectedPlans,
                   plans, retErr, exitCode, message,
                   started, results, scanVars>>

\* lines 300-305, targeted mode: the command of the next plan is started
PlanStart(g) ==
    /\ targeted
    /\ gpc[g] = "loop"
    /\ planIdx[g] <= Len(plans[g])
    /\ started' = [started EXCEPT ![g] = Append(@, plans[g][planIdx[g]])]
    /\ gpc' = [gpc EXCEPT ![g] = "exec"]
    /\ UNCHANGED <<mainVars, planIdx, results, scanVars>>

\* what runTargetedPlanGroup returns when the command of planDir fails
PlanError(planDir, err) ==
    Errorf("failed to run plan for " \o planDir \o ": " \o ErrMsg(err))

\* a write that puts the new output before the earlier ones
PrependOutput(data, output) == output \o "\n" \o data

\* the file of a group after the output of one more plan (lines 309-310)
AppendOutput(data, output) == data \o output \o "\n"

\* a loop that goes on after a failed command
LoopContinuesAlways(err) == TRUE

\* line 306: the loop goes on to the next plan unless the command failed
LoopContinues(err) == err = Nil

\* lines 305-311, targeted mode: the command ends; a failure ends the group,
\* an output is appended to the file of the group
PlanReturn(g) ==
    /\ targeted
    /\ gpc[g] = "exec"
    /\ \E r \in ExecResults(TargetOutputs(plans[g][planIdx[g]])) :
          /\ results' = [results EXCEPT ![g] = Append(@, r)]
          /\ IF ~LoopContinues(r.err)
             THEN /\ Return(g, PlanError(plans[g][planIdx[g]], r.err))
                  /\ UNCHANGED <<files, planIdx>>
             ELSE /\ files' = IF r.err = Nil
                              THEN [files EXCEPT ![PlansFile(g)] =
                                       FileOf(AppendOutput(@.data, r.output))]
                              ELSE files
                  /\ planIdx' = [planIdx EXCEPT ![g] = @ + 1]
                  /\ gpc' = [gpc EXCEPT ![g] = "loop"]
                  /\ UNCHANGED <<groupErr, wg>>
    /\ UNCHANGED <<pc, flagTargeted, targeted, discoverErr, affectedPlans,
                   plans, retErr, exitCode, message,
                   started, scanVars>>

\* line 313, targeted mode: after the last plan the group returns nil
GroupDone(g) ==
    /\ targeted
    /\ gpc[g] = "loop"
    /\ planIdx[g] > Len(plans[g])
    /\ Return(g, Nil)
    /\ UNCHANGED <<pc, flagTargeted, targeted, discoverErr, affectedPlans,
                   plans, retErr, exitCode, message,
                   files, planIdx, started, results, scanVars>>

Next ==
    \/ ValidateModule
    \/ MkdirAll
    \/ FindAffectedPlans
    \/ Partition
    \/ \E g \in Groups : Spawn(g)
    \/ Wait
    \/ HandleResult
    \/ GeneratePRMarkdown
    \/ \E g \in Groups : RunCommandStart(g)
    \/ \E g \in Groups : RunCommandReturn(g)
    \/ \E g \in Groups : CreateFile(g)
    \/ \E g \in Groups : PlanStart(g)
    \/ \E g \in Groups : PlanReturn(g)
    \/ \E g \in Groups : GroupDone(g)

Spec == Init /\ [][Next]_vars

\* the steps of the main goroutine inside runPlanAll and runTargetedPlans:
\* the go statements, the placeholder writes and the return of wg.Wait()
JoinNext ==
    \/ \E g \in Groups : Spawn(g)
    \/ Wait

\* the steps of the goroutine of group g; those that end an invocation are
\* the return of cmd.Output()
GroupNext(g) ==
    \/ RunCommandStart(g)
    \/ RunCommandReturn(g)
    \/ CreateFile(g)
    \/ PlanStart(g)
    \/ PlanReturn(g)
    \/ GroupDone(g)

\* the runs in which every goroutine that can take a step takes one in the
\* end: the scheduler runs every runnable goroutine, and every command that
\* was started ends
SpecFair ==
    /\ Spec
    /\ WF_vars(JoinNext)
    /\ \A g \in Groups : WF_vars(GroupNext(g))

(***************************************************************************)
(* Properties of the orchestration (specification Spec)                    *)
(***************************************************************************)

\* runPlanAll or runTargetedPlans has returned
Joined ==
    \/ pc \in {"returned", "report"}
    \/ pc = "exited" /\ \E g \in Groups : gpc[g] # "none"

\* the executor invocations a group makes when none fails
ExpectedInvocations(g) == IF targeted THEN plans[g] ELSE <<"plan_all">>

\* the group failed
Failed(g) == groupErr[g] # Nil

RECURSIVE ConcatOutputs(_)
\* the outputs of the successful invocations, each followed by a newline
ConcatOutputs(rs) ==
    IF Len(rs) = 0 THEN ""
    ELSE (IF Head(rs).err = Nil THEN Head(rs).output \o "\n" ELSE "")
             \o ConcatOutputs(Tail(rs))

\* C1: in batch and in targeted mode the orchestrator returns only after both
\* groups have finished (no goroutine is running, every started invocation
\* has returned), and a group that did not fail has run all of its
\* invocations to completion, whatever happened to the other group.
C1_JoinAfterBothGroups ==
    Joined =>
        \A g \in Groups :
            /\ gpc[g] \in {"none", "done"}
            /\ Len(results[g]) = Len(started[g])
            /\ ~Failed(g) =>
                  /\ started[g] = ExpectedInvocations(g)
                  /\ \A i \in 1..Len(results[g]) : results[g][i].err = Nil

\* C1 witness: targeted mode, the first commercial invocation failed and the
\* govcloud group has run both of its invocations
C1_Witness ==
    /\ pc = "returned"
    /\ targeted
    /\ Len(results["commercial"]) = 1
    /\ results["commercial"][1].err # Nil
    /\ ~Failed("govcloud")
    /\ Len(results["govcloud"]) = 2

\* C2: when exactly one group failed the run ends in failure, and the
\* artifact of the other group and its section of the report are produced.
C2_SurvivorReported ==
    (pc = "exited" /\ \E g, h \in Groups : Failed(g) /\ ~Failed(h)) =>
        /\ exitCode = 1
        /\ \A h \in Groups :
              ~Failed(h) =>
                 /\ files[PlansFile(h)].exists
                 /\ files[ReportFile].exists
                 /\ Contains(files[ReportFile].data,
                             ProcessPlansFile(files[PlansFile(h)], h = "govcloud"))

\* C3: when both groups failed the error returned by the orchestrator
\* reports the commercial cause and the govcloud cause.
C3_BothCausesReported ==
    (Joined /\ Failed("commercial") /\ Failed("govcloud")) =>
        /\ Contains(ErrMsg(retErr), ErrMsg(groupErr["commercial"]))
        /\ Contains(ErrMsg(retErr), ErrMsg(groupErr["govcloud"]))

\* the process ended on a failed validation, a failed creation of the output
\* directory or a failed creation of the report
SetupOrReportFailed ==
    \/ MatchAt(message, 1, "Error: ")
    \/ MatchAt(message, 1, "Error creating output directory: ")
    \/ MatchAt(message, 1, "Error generating PR markdown: ")

\* C4: the orchestrator returns an error exactly when a group failed; the
\* process ends with status 1 exactly when a group failed or validation,
\* the output directory or the report failed, and with status 0 exactly when
\* no group failed and the report was written.  A failure of the govcloud
\* group alone is not masked.
C4_FailureSignalled ==
    /\ Joined => (retErr # Nil <=> \E g \in Groups : Failed(g))
    /\ pc = "exited" =>
          /\ exitCode \in {0, 1}
          /\ exitCode = 1 <=> ((\E g \in Groups : Failed(g)) \/ SetupOrReportFailed)
          /\ exitCode = 0 <=> ((\A g \in Groups : ~Failed(g)) /\ files[ReportFile].exists)
    /\ pc # "exited" => exitCode = -1

\* C4 witness: the commercial group succeeded, the govcloud group failed and
\* the process ended with status 1
C4_Witness ==
    /\ pc = "exited"
    /\ ~Failed("commercial")
    /\ Len(results["commercial"]) > 0
    /\ Failed("govcloud")
    /\ exitCode = 1

\* C5: in targeted mode a failed invocation is the last one its group
\* starts: the group has returned an error that names the target of that
\* invocation, and the invocations started are those of the targets up to it.
C5_FailFast ==
    \A g \in Groups :
        targeted =>
            \A i \in 1..Len(results[g]) :
                results[g][i].err # Nil =>
                    /\ Len(started[g]) = i
                    /\ started[g] = SubSeq(plans[g], 1, i)
                    /\ gpc[g] = "done"
                    /\ Failed(g)
                    /\ Contains(ErrMsg(groupErr[g]), plans[g][i])

\* C5 witness: the process has ended, and a group with three targets failed
\* on its second one
C5_Witness ==
    /\ pc = "exited"
    /\ targeted
    /\ \E g \in Groups :
          /\ Len(plans[g]) = 3
          /\ Len(results[g]) = 2
          /\ results[g][1].err = Nil
          /\ results[g][2].err # Nil

\* C6: in targeted mode the invocations of a group are those of its targets
\* in input order, at most one of them is running (the next one starts after
\* the previous one returned), and the file of the group holds the outputs of
\* the successful invocations in that order, each followed by a newline.
C6_SequentialInOrder ==
    \A g \in Groups :
        targeted =>
            /\ started[g] = SubSeq(plans[g], 1, Len(started[g]))
            /\ Len(started[g]) - Len(results[g]) = (IF gpc[g] = "exec" THEN 1 ELSE 0)
            /\ gpc[g] \in {"loop", "exec", "done"} /\ files[PlansFile(g)].exists =>
                  files[PlansFile(g)].data = ConcatOutputs(results[g])

\* C6 witness: the commercial group has written the outputs of two different
\* targets while an invocation of the govcloud group is running
C6_Witness ==
    /\ targeted
    /\ Len(results["commercial"]) = 2
    /\ results["commercial"][1].err = Nil
    /\ results["commercial"][2].err = Nil
    /\ plans["commercial"][1] # plans["commercial"][2]
    /\ gpc["govcloud"] = "exec"

(***************************************************************************)
(* Properties of the scanner (specification SpecScan)                      *)
(***************************************************************************)

\* the next step of the scan reads a line
Stepping == scanPc = "loop" /\ lineIdx <= Len(lines)

\* the line the next step reads
CurLine == lines[lineIdx]

\* the step stores a plan (a record is emitted)
Emits == Len(scan'.emitted) = Len(scan.emitted) + 1

\* the record a step emits: the context after the markers of the line, and
\* the lines collected with the line added
EmittedRecord ==
    [environment |-> scan'.currentEnv,
     region      |-> scan'.currentRegion,
     blockText   |-> Join(Append(scan.planLines, CurLine), "\n")]

\* the (environment, region) pairs of a sequence of records
Pairs(records) == {<<records[i].environment, records[i].region>> : i \in 1..Len(records)}

\* C7: a record is emitted exactly when a footer line is read inside a plan
\* section with both environment and region non-empty, and a footer line
\* read inside a plan section always closes the section and clears the
\* collected lines.  The code violates it: the header test of line 388 is
\* not gated by inPlanSection, so a line that holds the header phrase and
\* the footer phrases, read inside a section, neither emits nor closes.
C7_EmitOnEveryFooter ==
    [][Stepping =>
          /\ Emits <=> /\ IsFooter(CurLine)
                       /\ scan.inPlanSection
                       /\ scan'.currentEnv # ""
                       /\ scan'.currentRegion # ""
          /\ (IsFooter(CurLine) /\ scan.inPlanSection) =>
                (~scan'.inPlanSection /\ scan'.planLines = <<>>)
      ]_vars

\* what the code does where C7_EmitOnEveryFooter fails: a record is emitted
\* exactly when a footer line that does not hold the header phrase is read inside a plan section with both environment
\* and region non-empty; such a footer line always closes the section and
\* clears the collected lines; when no record is emitted nothing is stored;
\* every emitted record has a non-empty environment and region, and the
\* output holds one block per emitted (environment, region) pair and no other.
C7_EmitOnClosingFooter ==
    /\ [](\A i \in 1..Len(scan.emitted) :
             scan.emitted[i].environment # "" /\ scan.emitted[i].region # "")
    /\ [](scanPc = "done" =>
             Cardinality(Occurrences(scanOut, "<details>"))
                 = Cardinality(Pairs(scan.emitted)))
    /\ [][Stepping =>
             LET closes == /\ IsFooter(CurLine)
                           /\ ~IsHeader(CurLine)
                           /\ scan.inPlanSection
             IN  /\ Emits <=> /\ closes
                              /\ scan'.currentEnv # ""
                              /\ scan'.currentRegion # ""
                 /\ closes => (~scan'.inPlanSection /\ scan'.planLines = <<>>)
                 /\ Emits => /\ scan'.emitted = Append(scan.emitted, EmittedRecord)
                             /\ scan'.environments[EmittedRecord.environment]
                                    .Plans[EmittedRecord.region]
                                        = EmittedRecord.blockText
                 /\ ~Emits => /\ scan'.emitted = scan.emitted
                              /\ scan'.environments = scan.environments
         ]_vars

\* a state of C7_EmitOnClosingFooter: a header and a footer were read with an environment and no
\* region; the section is closed and nothing was emitted
C7_Witness ==
    /\ scanPc = "loop"
    /\ lineIdx > 3
    /\ scan.currentEnv # ""
    /\ scan.currentRegion = ""
    /\ IsHeader(lines[lineIdx - 2])
    /\ IsFooter(lines[lineIdx - 1])
    /\ ~IsHeader(lines[lineIdx - 1])
    /\ ~scan.inPlanSection
    /\ scan.planLines = <<>>
    /\ scan.emitted = <<>>

\* C10: a header line read inside a plan section does not restart the
\* section: the lines collected so far are kept and the header is added.
\* The code violates it: line 390 assigns planLines = []string{line} on
\* every header line, so the lines collected before it are dropped.
C10_HeaderKeepsBuffer ==
    [][(Stepping /\ IsHeader(CurLine) /\ scan.inPlanSection) =>
          /\ scan'.inPlanSection
          /\ scan'.planLines = Append(scan.planLines, CurLine)
      ]_vars

\* what the code does where C10_HeaderKeepsBuffer fails: a header line read
\* inside a plan section restarts the section: the lines collected so far are dropped without a record and the
\* header line alone is kept, so that the first line of every emitted record
\* is a header line and no other line of it is one.
C10_HeaderRestartsBuffer ==
    /\ [][(Stepping /\ IsHeader(CurLine)) =>
             /\ scan'.inPlanSection
             /\ scan'.planLines = <<CurLine>>
             /\ scan'.emitted = scan.emitted
             /\ scan'.environments = scan.environments
         ]_vars
    /\ [](\A i \in 1..Len(scan.emitted) :
             LET ls == Split(scan.emitted[i].blockText, "\n")
             IN  /\ IsHeader(ls[1])
                 /\ \A k \in 2..Len(ls) : ~IsHeader(ls[k]))

\* a state of C10_HeaderRestartsBuffer: two header lines in a row were followed by a footer, and a
\* record was emitted for them
C10_Witness ==
    /\ scanPc = "loop"
    /\ lineIdx > 3
    /\ IsHeader(lines[lineIdx - 3])
    /\ IsHeader(lines[lineIdx - 2])
    /\ IsFooter(lines[lineIdx - 1])
    /\ ~IsHeader(lines[lineIdx - 1])
    /\ Len(scan.emitted) = 1

\* the line matches the environment pattern of the file
HasEnvMarker(line) == EnvMatches(isGovcloud, line) # <<>>

\* the line matches the region pattern of the file
HasRegionMarker(line) == RegionMatches(isGovcloud, line) # <<>>

\* the number of records emitted by the first k lines of the file
EmittedAfter(k) == Len(ScanLines(isGovcloud, ScanInit, SubSeq(lines, 1, k)).emitted)

\* the line at which the latest record was emitted, 0 when there is none
LastEmitLine ==
    LET S == {k \in 1..(lineIdx - 1) : EmittedAfter(k) > EmittedAfter(k - 1)}
    IN  IF S = {} THEN 0 ELSE CHOOSE k \in S : \A m \in S : m <= k

\* no line after the latest emission, up to the line being read, has a marker
NoMarkerSinceLastEmit ==
    \A k \in (LastEmitLine + 1)..lineIdx :
        ~HasEnvMarker(lines[k]) /\ ~HasRegionMarker(lines[k])

\* C11: currentEnv changes only on a line that matches the environment
\* pattern and currentRegion only on a line that matches the region pattern;
\* every other line, among them the lines that open a section and those that
\* close one with or without a record, leaves them as they were; and a
\* record emitted with no marker line since the previous record carries the
\* environment and region of the previous record.
C11_ContextSticky ==
    /\ [][Stepping =>
             /\ ~HasEnvMarker(CurLine) => scan'.currentEnv = scan.currentEnv
             /\ ~HasRegionMarker(CurLine) => scan'.currentRegion = scan.currentRegion
             /\ HasEnvMarker(CurLine) =>
                    scan'.currentEnv = EnvMatches(isGovcloud, CurLine)[2]
             /\ HasRegionMarker(CurLine) =>
                    scan'.currentRegion = RegionMatches(isGovcloud, CurLine)[2]
         ]_vars
    /\ [][(scanPc = "loop" /\ ~Stepping) =>
             /\ scan'.currentEnv = scan.currentEnv
             /\ scan'.currentRegion = scan.currentRegion
         ]_vars
    /\ [][(Stepping /\ Emits /\ scan.emitted # <<>> /\ NoMarkerSinceLastEmit) =>
             /\ EmittedRecord.environment
                    = scan.emitted[Len(scan.emitted)].environment
             /\ EmittedRecord.region = scan.emitted[Len(scan.emitted)].region
         ]_vars

\* C11 witness: two sections were closed with a record each; the lines of the
\* second have no marker and its record has the context of the first
C11_Witness ==
    /\ scanPc = "loop"
    /\ lineIdx = 5
    /\ Len(scan.emitted) = 2
    /\ ~HasEnvMarker(lines[3]) /\ ~HasRegionMarker(lines[3])
    /\ ~HasEnvMarker(lines[4]) /\ ~HasRegionMarker(lines[4])
    /\ IsHeader(lines[3])
    /\ scan.emitted[2].environment = scan.emitted[1].environment
    /\ scan.emitted[2].region = scan.emitted[1].region
    /\ scan.emitted[2].environment # ""

\* the text of a block of lines as the output would hold it
Rendered(blockLines) == "bash\n" \o Join(blockLines, "\n") \o "\n" \o Fence

\* the step reads a footer line inside a section with no environment or no
\* region
ClosesWithoutContext ==
    /\ Stepping
    /\ scan.inPlanSection
    /\ IsFooter(CurLine) /\ ~IsHeader(CurLine)
    /\ scan'.currentEnv = "" \/ scan'.currentRegion = ""

\* the step is the end of the loop, reached inside a section
EndsInsideSection == scanPc = "loop" /\ ~Stepping /\ scan.inPlanSection

\* C15: processPlansFile never returns an error.  A missing file, an empty
\* file and a file with a placeholder give no record and no output; a section
\* closed with no environment or no region gives no record and the loop goes
\* on; a section still open at the end of the file gives no record and is not
\* in the output; every block of the output is that of an emitted record.
C15_ScanNeverFails ==
    /\ [](scanErr = Nil)
    /\ []((scanPc = "done" /\ ~IsScanned(scanFile)) =>
             (scan.emitted = <<>> /\ scanOut = ""))
    /\ [](scanPc = "done" =>
             /\ Cardinality(Occurrences(scanOut, "<details>"))
                    <= Len(scan.emitted)
             /\ \A p \in Occurrences(scanOut, "<details>") :
                   \E i \in 1..Len(scan.emitted) :
                       MatchAt(scanOut, p, RegionBlock(scan.emitted[i].region,
                                                       scan.emitted[i].blockText)))
    /\ [][ClosesWithoutContext =>
             /\ scan'.emitted = scan.emitted
             /\ scan'.environments = scan.environments
             /\ scanPc' = "loop"
             /\ scanOut' = scanOut
         ]_vars
    /\ [][EndsInsideSection =>
             /\ scan'.emitted = scan.emitted
             /\ scanPc' = "done"
             /\ ~Contains(scanOut', Rendered(scan.planLines))
         ]_vars

\* C15 witness: the call has returned for a file in which a section was
\* closed with a record and a later one was still open at the end
C15_Witness ==
    /\ scanPc = "done"
    /\ IsScanned(scanFile)
    /\ scan.inPlanSection
    /\ Len(scan.planLines) = 2
    /\ Len(scan.emitted) = 1
    /\ scanOut # ""

\* the greatest element of a non-empty set of numbers
MaxOf(S) == CHOOSE x \in S : \A y \in S : y <= x

\* the environment named by the latest of the first k lines that matches the
\* environment pattern, "" when none does
LastEnvAt(k) ==
    LET S == {i \in 1..k : HasEnvMarker(lines[i])}
    IN  IF S = {} THEN "" ELSE EnvMatches(isGovcloud, lines[MaxOf(S)])[2]

\* the region named by the latest of the first k lines that matches the
\* region pattern, "" when none does
LastRegionAt(k) ==
    LET S == {i \in 1..k : HasRegionMarker(lines[i])}
    IN  IF S = {} THEN "" ELSE RegionMatches(isGovcloud, lines[MaxOf(S)])[2]

\* C19: after any number of lines, inside or outside a section, currentEnv
\* and currentRegion are those named by the latest line read that matches the
\* environment pattern and by the latest that matches the region pattern (a
\* line may be both); a record emitted at a footer line carries the
\* environment and region so defined at that line, the footer line and the
\* lines of its section included.
C19_RecordCarriesLatestMarkers ==
    /\ [](scanPc = "loop" =>
             /\ scan.currentEnv = LastEnvAt(lineIdx - 1)
             /\ scan.currentRegion = LastRegionAt(lineIdx - 1))
    /\ [][(Stepping /\ Emits) =>
             /\ scan'.emitted[Len(scan'.emitted)].environment = LastEnvAt(lineIdx)
             /\ scan'.emitted[Len(scan'.emitted)].region = LastRegionAt(lineIdx)
             /\ Contains(Render(scan'.environments),
                         EnvHeading(LastEnvAt(lineIdx)))
             /\ Contains(Render(scan'.environments),
                         RegionBlock(LastRegionAt(lineIdx),
                                     Join(Append(scan.planLines, CurLine), "\n")))
         ]_vars

\* C19 witness: a line before the header named an environment and a region,
\* a line inside the section named another region, and the record emitted at
\* the footer has the environment of the former and the region of the latter
C19_Witness ==
    /\ scanPc = "loop"
    /\ lineIdx = 5
    /\ HasEnvMarker(lines[1]) /\ HasRegionMarker(lines[1])
    /\ IsHeader(lines[2])
    /\ ~HasEnvMarker(lines[3]) /\ HasRegionMarker(lines[3])
    /\ IsFooter(lines[4]) /\ ~HasRegionMarker(lines[4])
    /\ Len(scan.emitted) = 1
    /\ scan.emitted[1].environment = EnvMatches(isGovcloud, lines[1])[2]
    /\ scan.emitted[1].region = RegionMatches(isGovcloud, lines[3])[2]
    /\ scan.emitted[1].region # RegionMatches(isGovcloud, lines[1])[2]

\* the line holds the header phrase and the footer phrases
HeaderAndFooter(line) == Contains(line, HeaderPhrase) /\ IsFooter(line)

\* C20: a line that holds the header phrase and also "Plan:" with a
\* change-count phrase opens a section and is not taken as a footer: after it
\* the section is open with that line as its first line and no record was
\* emitted or stored, whether or not a section was open before and whatever
\* the environment and region; no record is ever emitted at a line that
\* holds the header phrase, so no record ends with such a line.
C20_HeaderNeverFooter ==
    /\ [][(Stepping /\ HeaderAndFooter(CurLine)) =>
             /\ scan'.inPlanSection
             /\ Head(scan'.planLines) = CurLine
             /\ ~Emits
             /\ scan'.environments = scan.environments
         ]_vars
    /\ [][(Stepping /\ Emits) => ~Contains(CurLine, HeaderPhrase)]_vars
    /\ [](\A i \in 1..Len(scan.emitted) :
             LET ls == Split(scan.emitted[i].blockText, "\n")
             IN  Len(ls) >= 2 /\ ~Contains(ls[Len(ls)], HeaderPhrase))

\* C20 witness: inside a section, with an environment and a region, a line
\* with the header phrase and the footer phrases was read; the section is
\* open and nothing was emitted
C20_Witness ==
    /\ scanPc = "loop"
    /\ lineIdx = 4
    /\ HasEnvMarker(lines[1]) /\ HasRegionMarker(lines[1])
    /\ IsHeader(lines[2]) /\ ~IsFooter(lines[2])
    /\ HeaderAndFooter(lines[3])
    /\ scan.inPlanSection
    /\ scan.planLines = <<lines[3]>>
    /\ scan.emitted = <<>>

(***************************************************************************)
(* Properties of the report (specification Spec)                           *)
(***************************************************************************)

\* the records emitted by the scan of a file of plans
RecordsOf(file, gov) ==
    IF IsScanned(file)
    THEN ScanLines(gov, ScanInit, Split(file.data, "\n")).emitted
    ELSE <<>>

\* the full sequence of records: the commercial ones, then the govcloud ones
AllRecords ==
    RecordsOf(files[PlansFile("commercial")], FALSE)
        \o RecordsOf(files[PlansFile("govcloud")], TRUE)

\* the text of the report
Report == files[ReportFile].data

HeadingPrefix == "## [environment: "

\* the positions at which the sections of a report start
HeadingStarts(r) == Occurrences(r, HeadingPrefix)

\* the environment named by the heading at position p
HeadingName(r, p) ==
    LET from == p + Len(HeadingPrefix)
        close == MinOf({q \in from..Len(r) : CharAt(r, q) = "]"})
    IN  SubSeq(r, from, close - 1)

\* the section that starts at position p: up to the next heading
Section(r, p) ==
    LET later == {q \in HeadingStarts(r) : q > p}
    IN  SubSeq(r, p, IF later = {} THEN Len(r) ELSE MinOf(later) - 1)

SummaryPrefix == "<summary>"

\* the region named by the summary at position p
SummaryName(r, p) ==
    LET from == p + Len(SummaryPrefix)
        close == MinOf({q \in from..Len(r) : CharAt(r, q) = "<"})
    IN  SubSeq(r, from, close - 1)

\* some section of the report headed env holds the block of region with text
HasBlock(r, env, region, text) ==
    \E p \in HeadingStarts(r) :
        /\ HeadingName(r, p) = env
        /\ Contains(Section(r, p), RegionBlock(region, text))

\* records i and j have the same environment and region
SamePair(rs, i, j) ==
    rs[i].environment = rs[j].environment /\ rs[i].region = rs[j].region

\* C8: for two records of the full sequence with the same environment and
\* region and different texts, of which the later is the last one of that
\* pair, the report holds the block of the later and not that of the earlier;
\* and no section of the report holds two blocks of one region.
C8_LastWriteWins ==
    files[ReportFile].exists =>
        LET rs == AllRecords
        IN  /\ \A i, j \in 1..Len(rs) :
                  (/\ i < j
                   /\ SamePair(rs, i, j)
                   /\ rs[i].blockText # rs[j].blockText
                   /\ \A k \in (j + 1)..Len(rs) : ~SamePair(rs, j, k)) =>
                      /\ HasBlock(Report, rs[j].environment, rs[j].region, rs[j].blockText)
                      /\ ~HasBlock(Report, rs[i].environment, rs[i].region, rs[i].blockText)
            /\ \A p \in HeadingStarts(Report) :
                  \A a, b \in Occurrences(Section(Report, p), SummaryPrefix) :
                      a # b => SummaryName(Section(Report, p), a)
                                   # SummaryName(Section(Report, p), b)

\* C8 witness: the report was written from records of which two have the
\* same environment and region and different texts
C8_Witness ==
    /\ files[ReportFile].exists
    /\ \E i, j \in 1..Len(AllRecords) :
          /\ i < j
          /\ SamePair(AllRecords, i, j)
          /\ AllRecords[i].blockText # AllRecords[j].blockText

\* C9: in the report the sections are in ascending order of environment name
\* with no name twice, and in each section the blocks are in ascending order
\* of region name.
C9_ReportSorted ==
    files[ReportFile].exists =>
        /\ \A p, q \in HeadingStarts(Report) :
              p < q => StrLess(HeadingName(Report, p), HeadingName(Report, q))
        /\ \A p \in HeadingStarts(Report) :
              \A a, b \in Occurrences(Section(Report, p), SummaryPrefix) :
                  a < b => StrLess(SummaryName(Section(Report, p), a),
                                   SummaryName(Section(Report, p), b))

\* the main goroutine is past the statement that starts group g or writes
\* its placeholder
PastSpawn(g) ==
    \/ pc \in {"wait", "returned", "report"}
    \/ pc = "spawnGovcloud" /\ g = "commercial"
    \/ pc = "exited" /\ \E h \in Groups : gpc[h] # "none"

\* the other group
Other(g) == CHOOSE h \in Groups : h # g

\* the environments named by a sequence of records
EnvsOf(records) == {records[i].environment : i \in 1..Len(records)}

\* C12: in targeted mode a group with no target starts no invocation and
\* has no goroutine; its file holds the placeholder text, which the scan
\* recognises: no record and no text come from it, and a report that is
\* written has the sections of the other group and no other.
C12_EmptyGroupPlaceholder ==
    \A g \in Groups :
        (targeted /\ PastSpawn(g) /\ plans[g] = <<>>) =>
            LET file == files[PlansFile(g)]
            IN  /\ started[g] = <<>>
                /\ gpc[g] = "none"
                /\ ~Failed(g)
                /\ file.exists
                /\ Contains(file.data,
                            IF g = "commercial" THEN NoCommercialPlans
                                                ELSE NoGovcloudPlans)
                /\ ~IsScanned(file)
                /\ RecordsOf(file, g = "govcloud") = <<>>
                /\ ProcessPlansFile(file, g = "govcloud") = ""
                /\ files[ReportFile].exists =>
                       Cardinality(HeadingStarts(Report))
                           = Cardinality(EnvsOf(RecordsOf(files[PlansFile(Other(g))],
                                                          Other(g) = "govcloud")))

\* C12 witness: a targeted run with commercial targets only has ended with
\* status 0 and a report that has sections
C12_Witness ==
    /\ targeted
    /\ pc = "exited"
    /\ exitCode = 0
    /\ plans["govcloud"] = <<>>
    /\ Len(started["commercial"]) >= 2
    /\ files[ReportFile].exists
    /\ HeadingStarts(Report) # {}

\* the number of times x is in the sequence
Count(seq, x) == Cardinality({i \in 1..Len(seq) : seq[i] = x})

\* sub is made of elements of full, taken in the order they have in full
InOrderOf(sub, full) ==
    \E f \in [1..Len(sub) -> 1..Len(full)] :
        /\ \A i \in 1..Len(sub) : full[f[i]] = sub[i]
        /\ \A i, j \in 1..Len(sub) : i < j => f[i] < f[j]

\* runTargetedPlans has split the affected plans
Partitioned == targeted /\ affectedPlans # <<>> /\ pc # "partition"

\* C13: once the affected plans are split, a plan is in the govcloud list iff
\* it contains "govcloud" and in the commercial list iff it does not; every
\* plan is in the two lists together as many times as in the input and in
\* one of them only; each list has its plans in the order of the input.
C13_PartitionExact ==
    Partitioned =>
        LET com == plans["commercial"]
            gov == plans["govcloud"]
        IN  /\ \A i \in 1..Len(gov) : Contains(gov[i], "govcloud")
            /\ \A i \in 1..Len(com) : ~Contains(com[i], "govcloud")
            /\ \A i \in 1..Len(affectedPlans) :
                  LET t == affectedPlans[i]
                  IN  /\ Count(com, t) + Count(gov, t) = Count(affectedPlans, t)
                      /\ Count(com, t) = 0 \/ Count(gov, t) = 0
                      /\ Count(gov, t) > 0 <=> Contains(t, "govcloud")
            /\ Len(com) + Len(gov) = Len(affectedPlans)
            /\ InOrderOf(com, affectedPlans)
            /\ InOrderOf(gov, affectedPlans)

\* C13 witness: three plans were split, a commercial one between two
\* different govcloud ones
C13_Witness ==
    /\ Partitioned
    /\ pc = "wait"
    /\ Len(affectedPlans) = 3
    /\ plans["commercial"] = <<affectedPlans[2]>>
    /\ plans["govcloud"] = <<affectedPlans[1], affectedPlans[3]>>
    /\ affectedPlans[1] # affectedPlans[3]

\* what the executor invocations of group g have printed, as the file of the
\* group holds it: the output of plan_all, or the outputs of the plans, each
\* followed by a newline
Captured(g) ==
    IF targeted THEN ConcatOutputs(results[g])
    ELSE IF results[g] # <<>> THEN results[g][1].output ELSE ""

\* the group failed because its file could not be created or written
FileFailed(g) == Failed(g) /\ MatchAt(ErrMsg(groupErr[g]), 1, "open ")

\* C14: a group that has returned, with or without error, in batch or in
\* targeted mode, has written what it captured to its file unless the file
\* itself could not be written, and after the join the files of both groups
\* exist.
C14_ArtifactWrittenOnReturn ==
    /\ \A g \in Groups :
          (gpc[g] = "done" /\ ~FileFailed(g)) =>
              /\ files[PlansFile(g)].exists
              /\ files[PlansFile(g)].data = Captured(g)
    /\ (Joined /\ \A g \in Groups : ~FileFailed(g)) =>
          \A g \in Groups : files[PlansFile(g)].exists

\* findAffectedPlans has returned
PastDiscover ==
    \/ pc \in {"partition", "spawnCommercial", "spawnGovcloud", "wait", "returned",
               "report"}
    \/ pc = "exited" /\ \E h \in Groups : gpc[h] # "none"

\* the run was asked for targeted plans and has fallen back to plan_all
FellBack == flagTargeted /\ ~targeted

\* the process ended on an error of the groups or of the report
GroupsOrReportFailed ==
    \/ \E g \in Groups : Failed(g)
    \/ MatchAt(message, 1, "Error generating PR markdown: ")

\* C16: with --targeted, once findAffectedPlans has returned an error or an
\* empty list the run has fallen back and goes on: no plan is split off, each
\* group starts plan_all and nothing else, after the join each group has
\* started plan_all once, and the process ends with status 1 only when a
\* group or the report failed.
C16_FallbackToBatch ==
    /\ (flagTargeted /\ PastDiscover /\ (discoverErr # Nil \/ affectedPlans = <<>>)) =>
          FellBack
    /\ FellBack =>
          /\ discoverErr # Nil \/ affectedPlans = <<>>
          /\ PastDiscover
          /\ \A g \in Groups :
                /\ plans[g] = <<>>
                /\ started[g] \in {<<>>, <<"plan_all">>}
                /\ Joined => started[g] = <<"plan_all">>
          /\ pc = "exited" => (exitCode = 0 \/ GroupsOrReportFailed)

\* C16 witness: discovery failed, both groups ran plan_all and the process
\* ended with status 0
C16_Witness ==
    /\ flagTargeted
    /\ discoverErr # Nil
    /\ pc = "exited"
    /\ exitCode = 0
    /\ \A g \in Groups : started[g] = <<"plan_all">> /\ Len(results[g]) = 1

RECURSIVE StoreAll(_, _)
\* the map after the records were stored one after the other (lines 401-413)
StoreAll(environments, records) ==
    IF Len(records) = 0 THEN environments
    ELSE StoreAll(StorePlan(environments, Head(records).environment,
                            Head(records).region, Head(records).blockText),
                  Tail(records))

\* what is written for records stored in the order of the sequence
Assemble(records) == Render(StoreAll(<<>>, records))

\* the orders in which the records of a sequence can be processed
Orders(records) ==
    LET n == Len(records)
        perms == {f \in [1..n -> 1..n] : \A i, j \in 1..n : i # j => f[i] # f[j]}
    IN  {[i \in 1..n |-> records[f[i]]] : f \in perms}

\* records with the same environment and region have the same text
KeysAgree(records) ==
    \A i, j \in 1..Len(records) :
        SamePair(records, i, j) => records[i].blockText = records[j].blockText

\* the records of the file of group g
GroupRecords(g) == RecordsOf(files[PlansFile(g)], g = "govcloud")

\* C17 as stated: the records of a file give the same output in every order
\* in which they are processed.
C17_AnyOrderSameOutput ==
    files[ReportFile].exists =>
        \A g \in Groups :
            \A a, b \in Orders(GroupRecords(g)) : Assemble(a) = Assemble(b)

\* C17 amended: records of which no two have the same environment and region
\* with different texts give the same output in every order in which they are
\* processed, and that output is the part of the report written for the file.
C17_DistinctKeysSameOutput ==
    files[ReportFile].exists =>
        \A g \in Groups :
            LET records == GroupRecords(g)
                written == ProcessPlansFile(files[PlansFile(g)], g = "govcloud")
            IN  KeysAgree(records) =>
                    /\ \A a \in Orders(records) : Assemble(a) = written
                    /\ Contains(Report, written)

\* C17 witness: the report was written from two govcloud records of one
\* environment, the later of which has the lesser region
C17_Witness ==
    /\ files[ReportFile].exists
    /\ KeysAgree(GroupRecords("govcloud"))
    /\ Len(GroupRecords("govcloud")) = 2
    /\ GroupRecords("govcloud")[1].environment = GroupRecords("govcloud")[2].environment
    /\ StrLess(GroupRecords("govcloud")[2].region, GroupRecords("govcloud")[1].region)
    /\ Len(GroupRecords("commercial")) = 1

\* the step is one of the goroutine of group g
GroupStep(g) ==
    /\ gpc[g] # "none"
    /\ \/ gpc'[g] # gpc[g]
       \/ planIdx'[g] # planIdx[g]
       \/ started'[g] # started[g]
       \/ results'[g] # results[g]

\* the step is the main goroutine writing the placeholder of group g
PlaceholderStep(g) ==
    /\ pc = (IF g = "commercial" THEN "spawnCommercial" ELSE "spawnGovcloud")
    /\ targeted
    /\ plans[g] = <<>>

\* the step leaves everything of group h as it is
Untouched(h) ==
    /\ files'[PlansFile(h)] = files[PlansFile(h)]
    /\ groupErr'[h] = groupErr[h]
    /\ gpc'[h] = gpc[h]
    /\ planIdx'[h] = planIdx[h]
    /\ started'[h] = started[h]
    /\ results'[h] = results[h]

\* C18: a step of the goroutine of a group leaves the file, the error and
\* the progress of the other group, the report and the returned error as
\* they are; the file of a group is written by its goroutine or, for a group
\* with no plan, by the main goroutine before the join; the error of a group
\* is assigned by its goroutine as it returns; the main goroutine reads the
\* errors when no goroutine runs, and they do not change afterwards; and the
\* file of a group holds what its own invocations printed, whatever the
\* other group did.
C18_GroupsIndependent ==
    /\ [][\A g \in Groups :
             /\ GroupStep(g) =>
                   /\ Untouched(Other(g))
                   /\ files'[ReportFile] = files[ReportFile]
                   /\ retErr' = retErr
                   /\ pc' = pc
             /\ files'[PlansFile(g)] # files[PlansFile(g)] =>
                   (GroupStep(g) \/ PlaceholderStep(g))
             /\ groupErr'[g] # groupErr[g] => (GroupStep(g) /\ gpc'[g] = "done")
         ]_vars
    /\ [][(pc = "wait" /\ pc' # "wait") =>
             /\ \A g \in Groups : gpc[g] \in {"none", "done"}
             /\ retErr' = GroupsError(groupErr["commercial"], groupErr["govcloud"])
         ]_vars
    /\ [][retErr' # retErr => pc = "wait"]_vars
    /\ [][Joined => groupErr' = groupErr]_vars
    /\ [](\A g \in Groups :
             (gpc[g] # "none" /\ files[PlansFile(g)].exists) =>
                 files[PlansFile(g)].data = Captured(g))

\* C18 witness: both goroutines have an invocation running, the commercial
\* one after it wrote an output to its file
C18_Witness ==
    /\ targeted
    /\ gpc["commercial"] = "exec"
    /\ gpc["govcloud"] = "exec"
    /\ Len(results["commercial"]) = 1
    /\ files[PlansFile("commercial")].data # ""
    /\ files[PlansFile("govcloud")] = FileOf("")

\* no goroutine of a group is running: each group has returned or was never
\* started, and every invocation started has returned
GroupsFinished ==
    \A g \in Groups :
        /\ gpc[g] \in {"none", "done"}
        /\ Len(results[g]) = Len(started[g])

\* C21: generatePRMarkdown runs, and the report is written, only when both
\* groups have finished, in batch and in targeted mode; from then on the
\* files of the groups are not written, so the report is made of the files
\* as the groups left them.
C21_ReportAfterGroups ==
    /\ [](pc = "report" => GroupsFinished)
    /\ [](files[ReportFile].exists => GroupsFinished)
    /\ [][files'[ReportFile] # files[ReportFile] =>
             /\ pc = "report"
             /\ GroupsFinished
             /\ \A g \in Groups : files'[PlansFile(g)] = files[PlansFile(g)]
             /\ files'[ReportFile].data = ReportText(files)
         ]_vars
    /\ [][(pc \in {"report", "exited"}) =>
             \A g \in Groups : files'[PlansFile(g)] = files[PlansFile(g)]
         ]_vars

\* C21 witness: a targeted run in which both groups ran plans has written
\* its report
C21_Witness ==
    /\ targeted
    /\ pc = "exited"
    /\ files[ReportFile].exists
    /\ \A g \in Groups : gpc[g] = "done" /\ Len(results[g]) >= 1
    /\ Len(results["govcloud"]) = 2

\* the goroutines the wait group counts: those started and not yet returned
Running == {g \in Groups : gpc[g] \notin {"none", "done"}}

\* C22: when every command that is started ends, a run that starts the
\* groups comes to the return of wg.Wait(), for every split of the plans,
\* with a group that has no goroutine and with a group that ends on a failed
\* plan; the counter of the wait group is the number of goroutines that
\* run, so it is 0 when none runs and never negative.
C22_JoinReturns ==
    /\ [](pc \in {"spawnCommercial", "spawnGovcloud", "wait"} => <>(pc = "returned"))
    /\ [](pc \in {"spawnCommercial", "spawnGovcloud", "wait"} =>
             <>(\A g \in Groups : gpc[g] \in {"none", "done"}))
    /\ [](wg = Cardinality(Running))

\* C22 witness: wg.Wait() has returned in a targeted run in which the
\* govcloud group had no plan and the commercial group failed on the second
\* of its three plans
C22_Witness ==
    /\ pc = "returned"
    /\ targeted
    /\ plans["govcloud"] = <<>>
    /\ gpc["govcloud"] = "none"
    /\ Len(plans["commercial"]) = 3
    /\ Len(results["commercial"]) = 2
    /\ Failed("commercial")

\* the text is that of a well-formed block: a header line, then lines that
\* are not footer lines, then a footer line
WellFormedBlock(text) ==
    LET ls == Split(text, "\n")
    IN  /\ text # ""
        /\ Len(ls) >= 2
        /\ IsHeader(ls[1])
        /\ IsFooter(ls[Len(ls)])
        /\ \A k \in 2..(Len(ls) - 1) : ~IsFooter(ls[k])

\* C23: after any number of lines every text stored for an environment and
\* a region is a well-formed block; the lines collected are not empty while
\* inside a section, and start with a header line; every environment of the
\* map has a region, and every region of it a stored text; and every section
\* of the output has a block.
C23_StoredBlocksWellFormed ==
    /\ \A e \in DOMAIN scan.environments :
          LET env == scan.environments[e]
          IN  /\ env.Name = e
              /\ env.Regions # <<>>
              /\ \A i \in 1..Len(env.Regions) : env.Regions[i] \in DOMAIN env.Plans
              /\ \A r \in DOMAIN env.Plans :
                    /\ SliceContains(env.Regions, r)
                    /\ WellFormedBlock(env.Plans[r])
    /\ scan.inPlanSection =>
          (scan.planLines # <<>> /\ IsHeader(scan.planLines[1]))
    /\ scanPc = "done" =>
          /\ Cardinality(HeadingStarts(scanOut)) = Cardinality(DOMAIN scan.environments)
          /\ \A p \in HeadingStarts(scanOut) :
                Occurrences(Section(scanOut, p), "<details>") # {}

\* C23 witness: the call has returned after it stored a block of three
\* lines, the first of which holds the header phrase and the footer phrases
C23_Witness ==
    /\ scanPc = "done"
    /\ Len(scan.emitted) = 1
    /\ Len(Split(scan.emitted[1].blockText, "\n")) = 3
    /\ IsFooter(Split(scan.emitted[1].blockText, "\n")[1])
    /\ HeadingStarts(scanOut) # {}

=============================================================================
